---------------------------- MODULE Spec2Model ----------------------------
(***************************************************************************)
(* A model of the carousel bot (src/bot.py) and its content store          *)
(* (src/carousel_cache.py): the per-user session map and the handlers that *)
(* move it, the AI gateway generate_with_ai with its fallback and          *)
(* truncation cascade, the repair fix_truncated_json, and the carousels     *)
(* table.                                                                   *)
(*                                                                          *)
(* Texts are sequences of one-character strings, so that str.strip,        *)
(* str.count and json.loads are computed character by character as the     *)
(* code computes them.                                                      *)
(***************************************************************************)
EXTENDS Naturals, Integers, Sequences, FiniteSets, TLC

(***************************************************************************)
(* Bounds of the model.                                                     *)
(***************************************************************************)
\* Every text of at most MaxLen characters is a possible backend response.
MaxLen == 2
\* The identifiers uuid4 hands out: 1..MaxIds, and 0 before them where a
\* specification starts from it.
MaxIds == 1
\* Handlers suspended inside the gateway call at one time (SpecConcurrent).
MaxPending == 2

(***************************************************************************)
(* Characters and texts.                                                    *)
(***************************************************************************)
QUOTE == "\""
BACKSLASH == "\\"
SPACE == " "

\* The alphabet of the texts: the JSON structural characters, a space, the
\* letters c, t and a, and a digit.
Chars ==
    {"{", "}", "[", "]", QUOTE, BACKSLASH, ":", ",", SPACE, "c", "t", "a", "1"}

Whitespace == {SPACE}
Digits == {"1"}
\* Characters json.loads accepts after a backslash inside a string
\* (the ones of the alphabet).
Escapable == {QUOTE, BACKSLASH}

EmptyText == << >>

\* str.count(ch)
RECURSIVE Count(_, _)
Count(s, ch) ==
    IF s = << >> THEN 0
    ELSE (IF Head(s) = ch THEN 1 ELSE 0) + Count(Tail(s), ch)

\* str.lstrip() / str.rstrip() / str.strip()
RECURSIVE LStrip(_)
LStrip(s) ==
    IF s # << >> /\ Head(s) \in Whitespace THEN LStrip(Tail(s)) ELSE s

RECURSIVE RStrip(_)
RStrip(s) ==
    IF s # << >> /\ s[Len(s)] \in Whitespace
    THEN RStrip(SubSeq(s, 1, Len(s) - 1))
    ELSE s

Strip(s) == RStrip(LStrip(s))

\* ch * n
RECURSIVE Repeat(_, _)
Repeat(ch, n) == IF n <= 0 THEN << >> ELSE <<ch>> \o Repeat(ch, n - 1)

\* Every prefix of a text: what a length limit can leave of it.
Prefixes(s) == {SubSeq(s, 1, n) : n \in 0..Len(s)}

\* Every text over Chars of at most n characters.
RECURSIVE TextsUpTo(_)
TextsUpTo(n) ==
    IF n = 0 THEN {<< >>}
    ELSE LET shorter == TextsUpTo(n - 1)
         IN  shorter \cup {Append(t, ch) : t \in shorter, ch \in Chars}

(***************************************************************************)
(* json.loads, as a recursive-descent parser over the alphabet.  A parse    *)
(* result is [ok, pos, val]: pos is the index after the parsed value.  A    *)
(* value is [t, s, keys, kids]: t its type, s the characters of a string or *)
(* number, keys and kids the members of an object (kids alone for an        *)
(* array).  The literals true, false and null cannot be spelled in the      *)
(* alphabet.                                                                *)
(***************************************************************************)
NoVal == [t |-> "none", s |-> << >>, keys |-> << >>, kids |-> << >>]
ParseFail == [ok |-> FALSE, pos |-> 0, val |-> NoVal]
ParseOk(p, v) == [ok |-> TRUE, pos |-> p, val |-> v]

CharAt(s, i) == IF i >= 1 /\ i <= Len(s) THEN s[i] ELSE "EOF"

RECURSIVE SkipWs(_, _)
SkipWs(s, i) == IF CharAt(s, i) \in Whitespace THEN SkipWs(s, i + 1) ELSE i

\* py_scanstring: s[i] is the first character after the opening quote.
RECURSIVE ScanString(_, _, _)
ScanString(s, i, acc) ==
    LET ch == CharAt(s, i)
    IN  IF ch = "EOF" THEN ParseFail
        ELSE IF ch = QUOTE
             THEN ParseOk(i + 1, [NoVal EXCEPT !.t = "str", !.s = acc])
        ELSE IF ch = BACKSLASH
             THEN IF CharAt(s, i + 1) \in Escapable
                  THEN ScanString(s, i + 2, Append(acc, CharAt(s, i + 1)))
                  ELSE ParseFail
        ELSE ScanString(s, i + 1, Append(acc, ch))

RECURSIVE ScanNumber(_, _, _)
ScanNumber(s, i, acc) ==
    IF CharAt(s, i) \in Digits
    THEN ScanNumber(s, i + 1, Append(acc, CharAt(s, i)))
    ELSE ParseOk(i, [NoVal EXCEPT !.t = "num", !.s = acc])

RECURSIVE ScanValue(_, _)
RECURSIVE ScanArrayItems(_, _, _)
RECURSIVE ScanObjectPairs(_, _, _, _)

\* JSONArray: s[i] is the first character of the next item.
ScanArrayItems(s, i, kids) ==
    LET item == ScanValue(s, i)
    IN  IF ~item.ok THEN ParseFail
        ELSE LET j == SkipWs(s, item.pos)
                 got == Append(kids, item.val)
             IN  IF CharAt(s, j) = "]"
                 THEN ParseOk(j + 1, [NoVal EXCEPT !.t = "arr", !.kids = got])
                 ELSE IF CharAt(s, j) = ","
                      THEN ScanArrayItems(s, SkipWs(s, j + 1), got)
                      ELSE ParseFail

\* JSONObject: s[i] must be the opening quote of the next key.
ScanObjectPairs(s, i, keys, kids) ==
    IF CharAt(s, i) # QUOTE THEN ParseFail
    ELSE LET key == ScanString(s, i + 1, << >>)
         IN  IF ~key.ok THEN ParseFail
             ELSE LET c == SkipWs(s, key.pos)
                  IN  IF CharAt(s, c) # ":" THEN ParseFail
                      ELSE LET item == ScanValue(s, SkipWs(s, c + 1))
                           IN  IF ~item.ok THEN ParseFail
                               ELSE LET j == SkipWs(s, item.pos)
                                        ks == Append(keys, key.val.s)
                                        vs == Append(kids, item.val)
                                    IN  IF CharAt(s, j) = "}"
                                        THEN ParseOk(j + 1,
                                               [NoVal EXCEPT !.t = "obj",
                                                       !.keys = ks, !.kids = vs])
                                        ELSE IF CharAt(s, j) = ","
                                             THEN ScanObjectPairs(s, SkipWs(s, j + 1), ks, vs)
                                             ELSE ParseFail

\* scan_once: the value starting exactly at s[i].
ScanValue(s, i) ==
    LET ch == CharAt(s, i)
    IN  IF ch = QUOTE THEN ScanString(s, i + 1, << >>)
        ELSE IF ch = "{"
             THEN LET j == SkipWs(s, i + 1)
                  IN  IF CharAt(s, j) = "}"
                      THEN ParseOk(j + 1, [NoVal EXCEPT !.t = "obj"])
                      ELSE ScanObjectPairs(s, j, << >>, << >>)
        ELSE IF ch = "["
             THEN LET j == SkipWs(s, i + 1)
                  IN  IF CharAt(s, j) = "]"
                      THEN ParseOk(j + 1, [NoVal EXCEPT !.t = "arr"])
                      ELSE ScanArrayItems(s, j, << >>)
        ELSE IF ch \in Digits THEN ScanNumber(s, i, << >>)
        ELSE ParseFail

\* json.loads(text): ok is FALSE where the code gets a JSONDecodeError.
json_loads(text) ==
    LET r == ScanValue(text, SkipWs(text, 1))
    IN  IF r.ok /\ SkipWs(text, r.pos) = Len(text) + 1
        THEN r
        ELSE ParseFail

IsValidJson(text) == json_loads(text).ok

(***************************************************************************)
(* The repair of a truncated response (bot.py, fix_truncated_json).         *)
(***************************************************************************)
\* A repair that closes the objects before the lists.
fix_truncated_json_braces_first(truncated_json) ==
    LET content == Strip(truncated_json)
        missing_braces == Count(content, "{") - Count(content, "}")
        missing_brackets == Count(content, "[") - Count(content, "]")
        closed == IF Count(content, QUOTE) % 2 = 1
                  THEN Append(content, QUOTE) ELSE content
    IN  closed \o Repeat("}", missing_braces) \o Repeat("]", missing_brackets)

fix_truncated_json(truncated_json) ==
    LET content == Strip(truncated_json)
        open_braces == Count(content, "{")
        close_braces == Count(content, "}")
        open_brackets == Count(content, "[")
        close_brackets == Count(content, "]")
        missing_braces == open_braces - close_braces
        missing_brackets == open_brackets - close_brackets
        quote_count == Count(content, QUOTE)
        closed == IF quote_count % 2 = 1 THEN Append(content, QUOTE) ELSE content
    IN  closed \o Repeat("]", missing_brackets) \o Repeat("}", missing_braces)

(***************************************************************************)
(* The AI gateway (bot.py, generate_with_ai).  The backends are the         *)
(* environment: a call to one either throws or answers a text; the          *)
(* secondary backend's answer carries a finish reason.  The result of a     *)
(* call is [ok, text, err, log]: the text returned or the message of the    *)
(* exception raised, and the backend calls and cascade steps in the order   *)
(* the code makes them.                                                     *)
(***************************************************************************)
\* The messages of the exceptions the gateway raises.
MsgEmpty == "AI returned empty response"
MsgTruncated == "Response was truncated and could not be repaired"
MsgUnavailable == "Both Claude and OpenAI are unavailable"
MsgNotConfigured == "No AI API keys configured"
MsgProvider == "provider error"

Returned(text, log) == [ok |-> TRUE, text |-> text, err |-> "", log |-> log]
Raised(msg, log) == [ok |-> FALSE, text |-> EmptyText, err |-> msg, log |-> log]

Throws == [throws |-> TRUE, text |-> EmptyText, finish |-> "stop"]
Answers(text, finish) == [throws |-> FALSE, text |-> text, finish |-> finish]

\* Lines 202-217: the request with the shorter prompt, after the repair failed.
shorter_prompt_attempt(s2, log) ==
    LET log2 == Append(log, "secondary_shorter")
    IN  IF ~s2.throws /\ s2.text # EmptyText /\ Strip(s2.text) # EmptyText
        THEN Returned(s2.text, log2)
        ELSE Raised(MsgTruncated, log2)

\* A cascade that takes the repaired text without parsing it again.
truncated_cascade_unvalidated_repair(content, s2, log) ==
    LET log1 == Append(log, "parse_partial")
    IN  IF IsValidJson(content)
        THEN Returned(content, log1)
        ELSE Returned(fix_truncated_json(content), Append(log1, "repair"))

\* A cascade that asks again with the shorter prompt without trying the repair.
truncated_cascade_without_repair(content, s2, log) ==
    LET log1 == Append(log, "parse_partial")
    IN  IF IsValidJson(content)
        THEN Returned(content, log1)
        ELSE shorter_prompt_attempt(s2, log1)

\* Lines 180-217: a response stopped by the length limit.
truncated_cascade(content, s2, log) ==
    LET log1 == Append(log, "parse_partial")
    IN  IF IsValidJson(content)
        THEN Returned(content, log1)
        ELSE LET fixed_content == fix_truncated_json(content)
                 log2 == Append(log1, "repair")
             IN  IF IsValidJson(fixed_content)
                 THEN Returned(fixed_content, log2)
                 ELSE shorter_prompt_attempt(s2, log2)

\* A try on the OpenAI client that asks again with the shorter prompt after
\* an empty answer as well.
openai_attempt_asking_again(s1, s2) ==
    LET log == <<"secondary">>
    IN  IF s1.throws THEN Raised(MsgProvider, log)
        ELSE LET content == s1.text
             IN  IF content = EmptyText \/ Strip(content) = EmptyText
                 THEN shorter_prompt_attempt(s2, log)
                 ELSE IF s1.finish = "length"
                      THEN truncated_cascade(content, s2, log)
                      ELSE Returned(content, log)

\* Lines 164-220: the body of the try on the OpenAI client.
openai_attempt(s1, s2) ==
    LET log == <<"secondary">>
    IN  IF s1.throws THEN Raised(MsgProvider, log)
        ELSE LET content == s1.text
             IN  IF content = EmptyText \/ Strip(content) = EmptyText
                 THEN Raised(MsgEmpty, log)
                 ELSE IF s1.finish = "length"
                      THEN truncated_cascade(content, s2, log)
                      ELSE Returned(content, log)

\* Lines 219-223: what the try on the OpenAI client comes to; log holds the
\* calls made before it.
openai_result(log, r) ==
    IF r.ok
    THEN [r EXCEPT !.log = log \o r.log]
    ELSE Raised(MsgUnavailable, log \o r.log)

\* A gateway that asks the primary backend a second time before it falls
\* through to the secondary.
generate_with_ai_retrying(cl, p, s1, s2) ==
    IF cl.anthropic /\ ~p.throws
    THEN Returned(p.text, <<"primary">>)
    ELSE LET log == IF cl.anthropic THEN <<"primary", "primary">> ELSE << >>
         IN  IF cl.openai
             THEN openai_result(log, openai_attempt(s1, s2))
             ELSE Raised(MsgNotConfigured, log)

\* Lines 149-226.  cl: which clients exist; p, s1, s2: what the primary
\* call, the secondary call and the shorter-prompt call would answer.
generate_with_ai(cl, p, s1, s2) ==
    IF cl.anthropic /\ ~p.throws
    THEN Returned(p.text, <<"primary">>)
    ELSE LET log == IF cl.anthropic THEN <<"primary">> ELSE << >>
         IN  IF cl.openai
             THEN openai_result(log, openai_attempt(s1, s2))
             ELSE Raised(MsgNotConfigured, log)

\* anthropic_client, openai_client, openrouter_client (bot.py 69-82): set
\* once at import.
ClientConfigs == [anthropic : BOOLEAN, openai : BOOLEAN, openrouter : BOOLEAN]
\* The deployments the bot is followed in: every key set, and none.
AllClients == [anthropic |-> TRUE, openai |-> TRUE, openrouter |-> TRUE]
NoClients == [anthropic |-> FALSE, openai |-> FALSE, openrouter |-> FALSE]
BotConfigs == {AllClients, NoClients}

(***************************************************************************)
(* The texts of the model.  "c" abbreviates the key 'cards', "t" the key    *)
(* 'type'; the keys 'header' and 'text' and the type 'hook' cannot be       *)
(* spelled, so a card's header and text are always the defaults.            *)
(***************************************************************************)
KeyCards == <<"c">>
KeyType == <<"t">>

\* {"c":[{"t":"a"}]} : one card.
DocCards ==
    <<"{", QUOTE, "c", QUOTE, ":", "[", "{", QUOTE, "t", QUOTE, ":",
      QUOTE, "a", QUOTE, "}", "]", "}">>
\* {"c":[{"t":"a"},{"t":"}"}]} : a second card whose string holds a closer.
DocTwoCards ==
    <<"{", QUOTE, "c", QUOTE, ":", "[", "{", QUOTE, "t", QUOTE, ":",
      QUOTE, "a", QUOTE, "}", ",", "{", QUOTE, "t", QUOTE, ":",
      QUOTE, "}", QUOTE, "}", "]", "}">>
\* ["\""] : a string holding an escaped quote.
DocEscaped == <<"[", QUOTE, BACKSLASH, QUOTE, QUOTE, "]">>
\* [] : well-formed, and no object.
DocList == <<"[", "]">>
\* {"c":[ : DocCards cut after the opening bracket.
DocCut == <<"{", QUOTE, "c", QUOTE, ":", "[">>
\* {"c":[{"t":"a" : DocCards cut inside the card.
DocCutInside ==
    <<"{", QUOTE, "c", QUOTE, ":", "[", "{", QUOTE, "t", QUOTE, ":",
      QUOTE, "a", QUOTE>>

\* What a backend may answer in the gateway's own specification: every short
\* text, and every truncation of the documents.
GatewayTexts ==
    TextsUpTo(MaxLen) \cup Prefixes(DocCards) \cup Prefixes(DocTwoCards)
        \cup Prefixes(DocEscaped)

\* What a backend may answer to a handler of the bot.
BotTexts == {DocCards, DocList, DocCut}

\* What the user may type: a topic, or the URL of an image.
TextTopic == <<"a">>
TextUrl == <<"h", "t", "t", "p", ":", "/", "/", "a">>
Topics == {TextTopic}
UserTexts == {TextTopic, TextUrl}

\* str.startswith(prefix)
StartsWith(s, prefix) ==
    Len(s) >= Len(prefix) /\ SubSeq(s, 1, Len(prefix)) = prefix

(***************************************************************************)
(* The parsed document, as the renderers read it.                           *)
(***************************************************************************)
EmptyList == [NoVal EXCEPT !.t = "arr"]

\* dict.get(key, default); of a key given twice json.loads keeps the last.
RECURSIVE DictGetFrom(_, _, _, _)
DictGetFrom(val, key, default, i) ==
    IF i = 0 THEN default
    ELSE IF val.keys[i] = key THEN val.kids[i]
    ELSE DictGetFrom(val, key, default, i - 1)

DictGet(val, key, default) == DictGetFrom(val, key, default, Len(val.keys))
HasKey(val, key) == \E i \in 1..Len(val.keys) : val.keys[i] = key

\* bool(value): every number of the alphabet is non-zero.
Truthy(val) ==
    CASE val.t = "arr" -> val.kids # << >>
      [] val.t = "obj" -> val.keys # << >>
      [] val.t = "str" -> val.s # << >>
      [] OTHER -> TRUE

\* `for card in cards` with card.get(...) in its body completes: cards is
\* iterable and every item it yields is a dict.
CardsAreDicts(cards) ==
    CASE cards.t = "arr" -> \A i \in 1..Len(cards.kids) : cards.kids[i].t = "obj"
      [] cards.t = "obj" -> cards.keys = << >>
      [] cards.t = "str" -> cards.s = << >>
      [] OTHER -> FALSE

\* card.get('type', d).upper() completes.
TypeIsText(card) == HasKey(card, KeyType) => DictGet(card, KeyType, NoVal).t = "str"

\* JSONCarouselGenerator.format_cards_for_display raises (it catches only
\* JSONDecodeError).
format_cards_for_display_raises(text) ==
    LET r == json_loads(text)
        cards == DictGet(r.val, KeyCards, EmptyList)
    IN  r.ok /\ (\/ r.val.t # "obj"
                 \/ ~CardsAreDicts(cards)
                 \/ \E i \in 1..Len(cards.kids) : ~TypeIsText(cards.kids[i]))

\* JSONCarouselGenerator.generate_html_from_json raises; template_ok: the
\* two template files can be read.
style1_render_raises(text, template_ok) ==
    LET r == json_loads(text)
        cards == DictGet(r.val, KeyCards, EmptyList)
    IN  \/ ~r.ok
        \/ r.val.t # "obj"
        \/ ~template_ok
        \/ ~CardsAreDicts(cards)

\* JSONCarouselGeneratorStyle2.generate_html_from_json raises: as style 1,
\* and cards[0]['type'] needs the first card to have a type.
style2_render_raises(text, template_ok) ==
    LET r == json_loads(text)
        cards == DictGet(r.val, KeyCards, EmptyList)
    IN  \/ style1_render_raises(text, template_ok)
        \/ (Truthy(cards) /\ ~HasKey(cards.kids[1], KeyType))

\* The rendered document: the template of the style filled with the cards,
\* and the slide image integrate_slide_image puts into a style 2 document.
Html(content, style, image) ==
    [content |-> content, style |-> style,
     image |-> IF style = "style_2" THEN image ELSE << >>]

(***************************************************************************)
(* The state of the program.                                                *)
(***************************************************************************)
VARIABLES
    clients,        \* which of the AI clients exist
    user_sessions,  \* user_sessions: user id -> session dict
    pending,        \* the handlers suspended inside `await generate_with_ai`
    carousels,      \* the rows of the table carousels
    static_files,   \* static/carousel_<id>.html, for each id
    next_uuid,      \* the next value of uuid.uuid4()
    ev,             \* the last event handled: what the user was shown
    gw,             \* the call of the gateway, or of the repair, made on its own
    serial,         \* whether the transport delivers an event only after
                    \* the handler of the one before has finished
    active          \* the users who write to the bot

vars ==
    <<clients, user_sessions, pending, carousels, static_files, next_uuid,
      ev, gw, serial, active>>

Users == {1, 2}
Slots == 1..MaxPending
Ids == 0..MaxIds

\* A key a dict does not hold, and a key it holds with value v.
Absent == << >>
Some(v) == <<v>>
Val(field) == field[1]

\* A session dict.  The keys 'step', 'suggested_images' and
\* 'slide_image_description' are written and never read: they are left out.
Session(state) ==
    [state |-> state, style |-> Absent, topic |-> Absent,
     generated_content |-> Absent, html_content |-> Absent,
     published_url |-> Absent, carousel_id |-> Absent,
     slide_image_url |-> Absent]

\* user_id not in user_sessions
NoSession == Session("<no session>")
HasSession(u) == user_sessions[u] # NoSession

\* session.get('style', 'style_1')
StyleOf(session) ==
    IF session.style = Absent THEN "style_1" ELSE Val(session.style)

NoTask == [handler |-> "none", user |-> 0, text |-> << >>, style |-> "",
           orphan |-> FALSE]
Task(handler, u, text, style) ==
    [handler |-> handler, user |-> u, text |-> text, style |-> style,
     orphan |-> FALSE]

NoEvent ==
    [user |-> 0, handler |-> "none", reply |-> "none", raised |-> FALSE,
     gen |-> "none"]
\* The handler ended, having shown the user `reply` last.
Replied(u, handler, reply) ==
    [user |-> u, handler |-> handler, reply |-> reply, raised |-> FALSE,
     gen |-> "none"]
\* The handler let an exception escape to the transport layer.
Escaped(u, handler) ==
    [user |-> u, handler |-> handler, reply |-> "none", raised |-> TRUE,
     gen |-> "none"]
\* The handler got `outcome` from the gateway and the json.loads that follows
\* the call: "raised", "invalid" or "valid".
Generated(event, outcome) == [event EXCEPT !.gen = outcome]

GwIdle ==
    [called |-> FALSE, p |-> Throws, s1 |-> Throws, s2 |-> Throws,
     out |-> Raised("", << >>)]

\* carousel_<id>.html, and f"{BASE_URL}/static/{filename}" (bot.py 43, 1575, 1586)
Filename(id) == [prefix |-> "carousel_", id |-> id, suffix |-> ".html"]
\* A public URL made with an identifier generated anew.
PublicUrlOfAnotherId(id) ==
    [base |-> "BASE_URL", dir |-> "/static/",
     file |-> [prefix |-> "carousel_", id |-> id + 1, suffix |-> ".html"]]

PublicUrl(id) == [base |-> "BASE_URL", dir |-> "/static/", file |-> Filename(id)]
FilePath(id) == [dir |-> "static", file |-> Filename(id)]

InitStores ==
    /\ user_sessions = [u \in Users |-> NoSession]
    /\ pending = [k \in Slots |-> NoTask]
    /\ carousels = {}
    /\ static_files = [i \in Ids |-> "absent"]
    /\ next_uuid = 1
    /\ ev = NoEvent

InitCommon ==
    /\ InitStores
    /\ clients \in BotConfigs
    /\ gw = GwIdle

\* One user writes, and the transport delivers one event at a time: the
\* Application is built without concurrent updates (bot.py 89), so a handler
\* ends before the next update is handled.
Init == InitCommon /\ serial = TRUE /\ active = {1}
\* One user writes, and writes again while handlers are suspended in the
\* gateway call: the schedule of an Application built with concurrent updates.
InitConcurrent == InitCommon /\ serial = FALSE /\ active = {1}

(***************************************************************************)
(* The content store (carousel_cache.py).  io_ok: the database can be       *)
(* opened and written.                                                      *)
(***************************************************************************)
Row(id, u, topic, content, html, url, path) ==
    [carousel_id |-> id, user_id |-> u, topic |-> topic,
     generated_content |-> content, html_content |-> html,
     public_url |-> url, file_path |-> path]

\* A save_carousel that inserts without replacing.
save_carousel_inserting(rows, row, io_ok) ==
    IF io_ok
    THEN [ok |-> TRUE, rows |-> rows \cup {row}]
    ELSE [ok |-> FALSE, rows |-> rows]

\* save_carousel: INSERT OR REPLACE on the UNIQUE carousel_id; an error is
\* printed and False is returned.
save_carousel(rows, row, io_ok) ==
    IF io_ok
    THEN [ok |-> TRUE,
          rows |-> {r \in rows : r.carousel_id # row.carousel_id} \cup {row}]
    ELSE [ok |-> FALSE, rows |-> rows]

\* get_user_carousels: the rows of one user; [] on an error.
get_user_carousels(rows, u, io_ok) ==
    IF io_ok THEN {r \in rows : r.user_id = u} ELSE {}

(***************************************************************************)
(* The handlers of the bot (bot.py).  Each action is one handler, run for   *)
(* the event of user u; generate_content and modify_content are two         *)
(* actions each, before and after `await self.generate_with_ai(...)`.       *)
(* The calls of the Telegram API are taken to succeed.                      *)
(***************************************************************************)
Styles == {"style_1", "style_2"}

\* The URL of an image an image backend made.
GeneratedImageUrl == TextUrl

Idle == \A k \in Slots : pending[k] = NoTask
\* The transport delivers the next event.
Deliverable == serial => Idle
HasFreeSlot == \E k \in Slots : pending[k] = NoTask
FreeSlot == CHOOSE k \in Slots : pending[k] = NoTask /\ \A j \in 1..(k - 1) : pending[j] # NoTask

\* user_sessions[user_id] = {...}: a new dict.  A suspended modify_content
\* of the user keeps the dict it read before the call.
ReplaceSession(u, session) ==
    /\ user_sessions' = [user_sessions EXCEPT ![u] = session]
    /\ pending' = [k \in Slots |->
                     IF pending[k].user = u /\ pending[k].handler = "modify_content"
                     THEN [pending[k] EXCEPT !.orphan = TRUE]
                     ELSE pending[k]]

\* user_sessions[user_id].update(...) or an item assignment: the same dict.
UpdateSession(u, session) ==
    /\ user_sessions' = [user_sessions EXCEPT ![u] = session]
    /\ UNCHANGED pending

Frame ==
    UNCHANGED <<clients, carousels, static_files, next_uuid, gw, serial, active>>

\* /start, and a text message of a user who has no session (lines 316-342,
\* 486-488).  init_db is awaited outside any try.
start_command(u) ==
    /\ Deliverable
    /\ ReplaceSession(u, Session("main_menu"))
    /\ \E io_ok \in BOOLEAN :
          ev' = IF io_ok THEN Replied(u, "start_command", "welcome")
                ELSE Escaped(u, "start_command")
    /\ Frame

handle_message_no_session(u) ==
    /\ ~HasSession(u)
    /\ start_command(u)

\* Lines 383-407.
start_carousel_creation(u) ==
    /\ Deliverable
    /\ ReplaceSession(u, Session("awaiting_style_selection"))
    /\ ev' = Replied(u, "start_carousel_creation", "choose_style")
    /\ Frame

\* A select_style that writes the state and the style into the dict in place.
select_style_in_place(u, style) ==
    /\ Deliverable
    /\ UpdateSession(u, [user_sessions[u] EXCEPT !.state = "awaiting_topic",
                                                 !.style = Some(style)])
    /\ ev' = Replied(u, "select_style", "ask_topic")
    /\ Frame

\* Lines 409-432.
select_style(u, style) ==
    /\ Deliverable
    /\ ReplaceSession(u, [Session("awaiting_topic") EXCEPT !.style = Some(style)])
    /\ ev' = Replied(u, "select_style", "ask_topic")
    /\ Frame

\* Lines 434-455.
start_image_generation(u) ==
    /\ Deliverable
    /\ ReplaceSession(u, Session("awaiting_image_description"))
    /\ ev' = Replied(u, "start_image_generation", "ask_image_description")
    /\ Frame

\* Lines 457-479.
show_how_it_works(u) ==
    /\ Deliverable
    /\ ev' = Replied(u, "show_how_it_works", "how_it_works")
    /\ UNCHANGED <<user_sessions, pending>>
    /\ Frame

\* A back_to_main_menu that only sets the state of the dict.
back_to_main_menu_in_place(u) ==
    /\ Deliverable
    /\ UpdateSession(u, [user_sessions[u] EXCEPT !.state = "main_menu"])
    /\ ev' = Replied(u, "back_to_main_menu", "menu")
    /\ Frame

\* Lines 1624-1640.
back_to_main_menu(u) ==
    /\ Deliverable
    /\ ReplaceSession(u, Session("main_menu"))
    /\ ev' = Replied(u, "back_to_main_menu", "menu")
    /\ Frame

\* A handler that sets session['state'] of the dict in place, outside any
\* try: a KeyError escapes when the user has no session.
SetState(u, handler, state, reply) ==
    /\ Deliverable
    /\ IF HasSession(u)
       THEN /\ UpdateSession(u, [user_sessions[u] EXCEPT !.state = state])
            /\ ev' = Replied(u, handler, reply)
       ELSE /\ UNCHANGED <<user_sessions, pending>>
            /\ ev' = Escaped(u, handler)
    /\ Frame

\* Lines 801-857: with or without suggestions, the state is set.
approve_content(u) ==
    SetState(u, "approve_content", "awaiting_image_description_for_slide",
             "ask_slide_image")

\* A request_modifications that withdraws the records of the user.
request_modifications_withdrawing(u) ==
    /\ Deliverable
    /\ HasSession(u)
    /\ UpdateSession(u, [user_sessions[u] EXCEPT !.state = "awaiting_modifications"])
    /\ ev' = Replied(u, "request_modifications", "ask_modifications")
    /\ carousels' = {row \in carousels : row.user_id # u}
    /\ UNCHANGED <<clients, static_files, next_uuid, gw, serial, active>>

\* Lines 1410-1427.
request_modifications(u) ==
    SetState(u, "request_modifications", "awaiting_modifications",
             "ask_modifications")

\* Lines 1514-1531.
request_html_modifications(u) ==
    SetState(u, "request_html_modifications", "awaiting_html_modifications",
             "ask_html_modifications")

\* Lines 1207-1223.
decline_slide_image(u) ==
    SetState(u, "decline_slide_image", "awaiting_image_description_for_slide",
             "ask_slide_image")

\* Lines 1225-1245.
request_image_url(u) ==
    SetState(u, "request_image_url", "awaiting_image_url", "ask_image_url")

\* What the backends may answer to a call made by a handler.
BotPrimaryResponses == {Throws} \cup {Answers(t, "stop") : t \in BotTexts}
BotSecondaryResponses ==
    {Throws, Answers(DocCards, "stop"), Answers(DocCutInside, "length")}
BotShorterResponses == {Throws, Answers(DocCards, "stop")}

\* A generate_content that handle_message would call for a text in any state.
generate_content_in_any_state(u, topic) ==
    /\ Deliverable
    /\ HasSession(u)
    /\ HasFreeSlot
    /\ pending' = [pending EXCEPT ![FreeSlot] =
                     Task("generate_content", u, topic,
                          StyleOf(user_sessions[u]))]
    /\ ev' = Replied(u, "generate_content", "generating")
    /\ UNCHANGED user_sessions
    /\ Frame

\* Lines 506-543: up to the call of the gateway.  prompt_ok: the prompt
\* template can be read.
generate_content(u, topic) ==
    /\ Deliverable
    /\ HasSession(u)
    /\ user_sessions[u].state = "awaiting_topic"
    /\ HasFreeSlot
    /\ \E prompt_ok \in BOOLEAN :
          IF prompt_ok
          THEN /\ pending' = [pending EXCEPT ![FreeSlot] =
                                Task("generate_content", u, topic,
                                     StyleOf(user_sessions[u]))]
               /\ ev' = Replied(u, "generate_content", "generating")
          ELSE /\ UNCHANGED pending
               /\ ev' = Replied(u, "generate_content", "generate_failed")
    /\ UNCHANGED user_sessions
    /\ Frame

\* Lines 543-555 and 1452-1464: what the call of the gateway and the
\* json.loads after it came to: the gateway raised, json.loads raised, or
\* the text was accepted.
json_outcome(r) ==
    IF ~r.ok THEN "raised"
    ELSE IF IsValidJson(r.text) THEN "valid" ELSE "invalid"

\* A handler that stores whatever text the gateway returned.
StoreGeneratedUnchecked(session, outcome, updated) ==
    IF outcome # "raised" THEN updated ELSE session

\* Lines 545-562 and 1454-1470: the session dict after the call: `updated`
\* when the text was accepted, and as it was when the gateway or json.loads
\* raised.
StoreGenerated(session, outcome, updated) ==
    IF outcome = "valid" THEN updated ELSE session

\* A generate_content that, after the gateway call, writes the session of the
\* user whose event was handled last.
generate_content_validated_for_last_user(k, r, outcome) ==
    LET t == pending[k]
        u == t.user
        w == IF ev.user \in Users THEN ev.user ELSE u
        h == "generate_content"
        updated == [user_sessions[w] EXCEPT
                      !.state = "content_review",
                      !.topic = Some(t.text),
                      !.generated_content = Some(r.text)]
        stored == StoreGenerated(user_sessions[w], outcome, updated)
    IN  /\ user_sessions' = [user_sessions EXCEPT ![w] = stored]
        /\ ev' = IF outcome = "raised"
                 THEN Generated(Replied(u, h, "generate_failed"), outcome)
                 ELSE IF outcome = "invalid"
                 THEN Generated(Replied(u, h, "invalid_format"), outcome)
                 ELSE Generated(Replied(u, h, "content_preview"), outcome)

\* Lines 545-608: from json.loads on.
generate_content_validated(k, r, outcome) ==
    LET t == pending[k]
        u == t.user
        h == "generate_content"
        updated == [user_sessions[u] EXCEPT
                      !.state = "content_review",
                      !.topic = Some(t.text),
                      !.generated_content = Some(r.text)]
        stored == StoreGenerated(user_sessions[u], outcome, updated)
    IN  /\ user_sessions' = [user_sessions EXCEPT ![u] = stored]
        /\ ev' = IF outcome = "raised"
                 THEN Generated(Replied(u, h, "generate_failed"), outcome)
                 ELSE IF outcome = "invalid"
                 THEN Generated(Replied(u, h, "invalid_format"), outcome)
                 ELSE IF /\ StyleOf(stored) = "style_1"
                         /\ format_cards_for_display_raises(r.text)
                 THEN Generated(Replied(u, h, "generate_failed"), outcome)
                 ELSE Generated(Replied(u, h, "content_preview"), outcome)

\* Lines 543-608: from the answer r of the gateway on.
generate_content_answered(k, r) ==
    generate_content_validated(k, r, json_outcome(r))

generate_content_resume(k) ==
    /\ pending[k].handler = "generate_content"
    /\ pending' = [pending EXCEPT ![k] = NoTask]
    /\ \E p \in BotPrimaryResponses, s1 \in BotSecondaryResponses,
          s2 \in BotShorterResponses :
          generate_content_answered(k, generate_with_ai(clients, p, s1, s2))
    /\ Frame

\* Lines 1429-1452: up to the call of the gateway.
modify_content(u) ==
    LET session == user_sessions[u]
        h == "modify_content"
    IN  /\ Deliverable
        /\ HasSession(u)
        /\ session.state = "awaiting_modifications"
        /\ HasFreeSlot
        /\ IF session.generated_content = Absent \/ session.topic = Absent
           THEN /\ UNCHANGED pending
                /\ ev' = Replied(u, h, "modify_failed")
           ELSE /\ pending' = [pending EXCEPT ![FreeSlot] =
                                 Task(h, u, << >>, StyleOf(session))]
                /\ ev' = Replied(u, h, "modifying")
        /\ UNCHANGED user_sessions
        /\ Frame

\* modify_content_validated with the new text appended to the old one.
modify_content_validated_appending(k, r, outcome) ==
    LET t == pending[k]
        u == t.user
        h == "modify_content"
        updated == [user_sessions[u] EXCEPT
                      !.state = "content_review",
                      !.generated_content =
                          Some(Val(user_sessions[u].generated_content) \o r.text)]
        stored == StoreGenerated(user_sessions[u], outcome, updated)
    IN  /\ user_sessions' =
              IF t.orphan THEN user_sessions
              ELSE [user_sessions EXCEPT ![u] = stored]
        /\ ev' = IF outcome = "raised"
                 THEN Generated(Replied(u, h, "modify_failed"), outcome)
                 ELSE IF outcome = "invalid"
                 THEN Generated(Replied(u, h, "modify_invalid_format"), outcome)
                 ELSE IF /\ t.style = "style_1"
                         /\ format_cards_for_display_raises(r.text)
                 THEN Generated(Replied(u, h, "modify_failed"), outcome)
                 ELSE Generated(Replied(u, h, "modified_preview"), outcome)

\* Lines 1454-1512: from json.loads on.  The update is made to the dict read
\* before the call, which is the user's session unless that was replaced
\* meanwhile.
modify_content_validated(k, r, outcome) ==
    LET t == pending[k]
        u == t.user
        h == "modify_content"
        updated == [user_sessions[u] EXCEPT
                      !.state = "content_review",
                      !.generated_content = Some(r.text)]
        stored == StoreGenerated(user_sessions[u], outcome, updated)
    IN  /\ user_sessions' =
              IF t.orphan THEN user_sessions
              ELSE [user_sessions EXCEPT ![u] = stored]
        /\ ev' = IF outcome = "raised"
                 THEN Generated(Replied(u, h, "modify_failed"), outcome)
                 ELSE IF outcome = "invalid"
                 THEN Generated(Replied(u, h, "modify_invalid_format"), outcome)
                 ELSE IF /\ t.style = "style_1"
                         /\ format_cards_for_display_raises(r.text)
                 THEN Generated(Replied(u, h, "modify_failed"), outcome)
                 ELSE Generated(Replied(u, h, "modified_preview"), outcome)

\* Lines 1452-1512: from the answer r of the gateway on.
modify_content_answered(k, r) ==
    modify_content_validated(k, r, json_outcome(r))

modify_content_resume(k) ==
    /\ pending[k].handler = "modify_content"
    /\ pending' = [pending EXCEPT ![k] = NoTask]
    /\ \E p \in BotPrimaryResponses, s1 \in BotSecondaryResponses,
          s2 \in BotShorterResponses :
          modify_content_answered(k, generate_with_ai(clients, p, s1, s2))
    /\ Frame

\* generate_html_from_json of the generator of the style raises.
render_raises(content, style, template_ok) ==
    IF style = "style_2"
    THEN style2_render_raises(content, template_ok)
    ELSE style1_render_raises(content, template_ok)

\* A RenderInto that moves the session to html_review before it renders.
RenderInto_marking_first(u, handler, session) ==
    LET content == Val(session.generated_content)
        style == StyleOf(session)
    IN  \E template_ok \in BOOLEAN :
           IF render_raises(content, style, template_ok)
           THEN /\ UpdateSession(u, [session EXCEPT !.state = "html_review"])
                /\ ev' = Replied(u, handler, "html_failed")
           ELSE /\ UpdateSession(u, [session EXCEPT
                       !.state = "html_review",
                       !.html_content =
                           Some(Html(content, style, session.slide_image_url))])
                /\ ev' = Replied(u, handler, "html_preview")

\* Lines 1280-1328 and 1338-1386: the try of proceed_to_html_generation and
\* of proceed_to_html_generation_from_message, on the dict `session`.
RenderInto(u, handler, session) ==
    LET content == Val(session.generated_content)
        style == StyleOf(session)
    IN  \E template_ok \in BOOLEAN :
           IF render_raises(content, style, template_ok)
           THEN /\ UpdateSession(u, session)
                /\ ev' = Replied(u, handler, "html_failed")
           ELSE /\ UpdateSession(u, [session EXCEPT
                       !.state = "html_review",
                       !.html_content =
                           Some(Html(content, style, session.slide_image_url))])
                /\ ev' = Replied(u, handler, "html_preview")

\* Lines 1272-1328, reached from skip_image and approve_slide_image (lines
\* 1199-1205).  The session and its content are read outside the try.
proceed_to_html_generation(u) ==
    /\ Deliverable
    /\ IF ~HasSession(u) \/ user_sessions[u].generated_content = Absent
       THEN /\ UNCHANGED <<user_sessions, pending>>
            /\ ev' = Escaped(u, "proceed_to_html_generation")
       ELSE RenderInto(u, "proceed_to_html_generation", user_sessions[u])
    /\ Frame

HttpPrefix == <<"h", "t", "t", "p", ":", "/", "/">>
HttpsPrefix == <<"h", "t", "t", "p", "s", ":", "/", "/">>

\* Lines 1247-1270, then 1330-1386.
process_image_url(u, image_url) ==
    LET session == user_sessions[u]
        h == "process_image_url"
        saved == [session EXCEPT !.state = "reviewing_slide_image",
                                 !.slide_image_url = Some(image_url)]
    IN  /\ Deliverable
        /\ HasSession(u)
        /\ session.state = "awaiting_image_url"
        /\ IF ~(StartsWith(image_url, HttpPrefix) \/ StartsWith(image_url, HttpsPrefix))
           THEN /\ UNCHANGED <<user_sessions, pending>>
                /\ ev' = Replied(u, h, "invalid_url")
           ELSE IF saved.generated_content = Absent
           THEN /\ UpdateSession(u, saved)
                /\ ev' = Escaped(u, h)
           ELSE RenderInto(u, h, saved)
        /\ Frame

\* Lines 610-769.  prompt_ok: the prompt template can be read; made: a
\* configured image backend answered an image.
generate_image(u) ==
    LET h == "generate_image"
    IN  /\ Deliverable
        /\ HasSession(u)
        /\ user_sessions[u].state = "awaiting_image_description"
        /\ \E prompt_ok \in BOOLEAN, made \in BOOLEAN :
              IF ~prompt_ok
              THEN /\ UNCHANGED <<user_sessions, pending>>
                   /\ ev' = Replied(u, h, "image_failed_with_detail")
              ELSE IF ~clients.openrouter /\ ~clients.openai
              THEN /\ UNCHANGED <<user_sessions, pending>>
                   /\ ev' = Replied(u, h, "image_unavailable")
              ELSE IF made
              THEN /\ ReplaceSession(u, Session("main_menu"))
                   /\ ev' = Replied(u, h, "image_generated")
              ELSE /\ UNCHANGED <<user_sessions, pending>>
                   /\ ev' = Replied(u, h, "image_failed_with_detail")
        /\ Frame

\* Lines 961-1105, with send_image_for_approval (lines 916-959).
generate_slide_image(u) ==
    LET h == "generate_slide_image"
    IN  /\ Deliverable
        /\ HasSession(u)
        /\ user_sessions[u].state = "awaiting_image_description_for_slide"
        /\ \E prompt_ok \in BOOLEAN, made \in BOOLEAN :
              IF ~prompt_ok
              THEN /\ UNCHANGED <<user_sessions, pending>>
                   /\ ev' = Replied(u, h, "image_failed_with_detail")
              ELSE IF ~clients.openrouter /\ ~clients.openai
              THEN /\ UNCHANGED <<user_sessions, pending>>
                   /\ ev' = Replied(u, h, "image_unavailable")
              ELSE IF made
              THEN /\ UpdateSession(u, [user_sessions[u] EXCEPT
                          !.state = "reviewing_slide_image",
                          !.slide_image_url = Some(GeneratedImageUrl)])
                   /\ ev' = Replied(u, h, "slide_image_review")
              ELSE /\ UNCHANGED <<user_sessions, pending>>
                   /\ ev' = Replied(u, h, "image_failed_with_detail")
        /\ Frame

\* Lines 1533-1563: the state is not written.
modify_html_content(u) ==
    LET h == "modify_html_content"
    IN  /\ Deliverable
        /\ HasSession(u)
        /\ user_sessions[u].state = "awaiting_html_modifications"
        /\ ev' = IF user_sessions[u].html_content = Absent
                 THEN Replied(u, h, "html_modify_failed")
                 ELSE Replied(u, h, "html_modified")
        /\ UNCHANGED <<user_sessions, pending>>
        /\ Frame

\* The states in which handle_message (lines 493-504) calls a handler.
TextStates ==
    {"awaiting_topic", "awaiting_image_description",
     "awaiting_image_description_for_slide", "awaiting_image_url",
     "awaiting_modifications", "awaiting_html_modifications"}

\* Lines 481-504, in a state that awaits no text.
handle_message_ignored(u) ==
    /\ Deliverable
    /\ HasSession(u)
    /\ user_sessions[u].state \notin TextStates
    /\ ev' = Replied(u, "handle_message", "none")
    /\ UNCHANGED <<user_sessions, pending>>
    /\ Frame

\* A publish_carousel whose uuid4 hands out the same identifier again.
publish_carousel_repeating_id(u) ==
    LET session == user_sessions[u]
        h == "publish_carousel"
        carousel_id == next_uuid
        public_url == PublicUrl(carousel_id)
        marked == [session EXCEPT !.published_url = Some(public_url),
                                  !.carousel_id = Some(carousel_id)]
    IN  /\ Deliverable
        /\ IF ~HasSession(u) \/ session.html_content = Absent
           THEN /\ ev' = Replied(u, h, "publish_failed")
                /\ UNCHANGED <<user_sessions, pending, carousels,
                               static_files, next_uuid>>
           ELSE /\ next_uuid <= MaxIds
                /\ next_uuid' = next_uuid
                /\ \E written \in {"absent", "partial", "written"}, io_ok \in BOOLEAN :
                      /\ static_files' = [static_files EXCEPT ![carousel_id] = written]
                      /\ IF written # "written"
                         THEN /\ ev' = Replied(u, h, "publish_failed")
                              /\ UNCHANGED <<user_sessions, pending, carousels>>
                         ELSE IF session.topic = Absent \/ session.generated_content = Absent
                         THEN /\ UpdateSession(u, marked)
                              /\ ev' = Replied(u, h, "publish_failed")
                              /\ UNCHANGED carousels
                         ELSE /\ UpdateSession(u, marked)
                              /\ carousels' =
                                    save_carousel(carousels,
                                        Row(carousel_id, u, Val(session.topic),
                                            Val(session.generated_content),
                                            Val(session.html_content),
                                            public_url, FilePath(carousel_id)),
                                        io_ok).rows
                              /\ ev' = Replied(u, h, "published")
        /\ UNCHANGED <<clients, gw, serial, active>>

\* A publish_carousel that opens the artifact file before it reads the session.
publish_carousel_opening_file_first(u) ==
    LET session == user_sessions[u]
        h == "publish_carousel"
        carousel_id == next_uuid
        public_url == PublicUrl(carousel_id)
        marked == [session EXCEPT !.published_url = Some(public_url),
                                  !.carousel_id = Some(carousel_id)]
    IN  /\ Deliverable
        /\ IF ~HasSession(u) \/ session.html_content = Absent
           THEN /\ ev' = Replied(u, h, "publish_failed")
                /\ static_files' =
                      [static_files EXCEPT ![IF next_uuid <= MaxIds
                                             THEN next_uuid ELSE MaxIds] = "partial"]
                /\ UNCHANGED <<user_sessions, pending, carousels, next_uuid>>
           ELSE /\ next_uuid <= MaxIds
                /\ next_uuid' = next_uuid + 1
                /\ \E written \in {"absent", "partial", "written"}, io_ok \in BOOLEAN :
                      /\ static_files' = [static_files EXCEPT ![carousel_id] = written]
                      /\ IF written # "written"
                         THEN /\ ev' = Replied(u, h, "publish_failed")
                              /\ UNCHANGED <<user_sessions, pending, carousels>>
                         ELSE IF session.topic = Absent \/ session.generated_content = Absent
                         THEN /\ UpdateSession(u, marked)
                              /\ ev' = Replied(u, h, "publish_failed")
                              /\ UNCHANGED carousels
                         ELSE /\ UpdateSession(u, marked)
                              /\ carousels' =
                                    save_carousel(carousels,
                                        Row(carousel_id, u, Val(session.topic),
                                            Val(session.generated_content),
                                            Val(session.html_content),
                                            public_url, FilePath(carousel_id)),
                                        io_ok).rows
                              /\ ev' = Replied(u, h, "published")
        /\ UNCHANGED <<clients, gw, serial, active>>

\* Lines 1565-1622.  written: what the write of the artifact file came to
\* ("absent": the file could not be opened; "partial": the write failed);
\* io_ok: the store can be written.  The value save_carousel returns is not
\* read.
publish_carousel(u) ==
    LET session == user_sessions[u]
        h == "publish_carousel"
        carousel_id == next_uuid
        public_url == PublicUrl(carousel_id)
        marked == [session EXCEPT !.published_url = Some(public_url),
                                  !.carousel_id = Some(carousel_id)]
    IN  /\ Deliverable
        /\ IF ~HasSession(u) \/ session.html_content = Absent
           THEN /\ ev' = Replied(u, h, "publish_failed")
                /\ UNCHANGED <<user_sessions, pending, carousels,
                               static_files, next_uuid>>
           ELSE /\ next_uuid <= MaxIds
                /\ next_uuid' = next_uuid + 1
                /\ \E written \in {"absent", "partial", "written"}, io_ok \in BOOLEAN :
                      /\ static_files' = [static_files EXCEPT ![carousel_id] = written]
                      /\ IF written # "written"
                         THEN /\ ev' = Replied(u, h, "publish_failed")
                              /\ UNCHANGED <<user_sessions, pending, carousels>>
                         ELSE IF session.topic = Absent \/ session.generated_content = Absent
                         THEN /\ UpdateSession(u, marked)
                              /\ ev' = Replied(u, h, "publish_failed")
                              /\ UNCHANGED carousels
                         ELSE /\ UpdateSession(u, marked)
                              /\ carousels' =
                                    save_carousel(carousels,
                                        Row(carousel_id, u, Val(session.topic),
                                            Val(session.generated_content),
                                            Val(session.html_content),
                                            public_url, FilePath(carousel_id)),
                                        io_ok).rows
                              /\ ev' = Replied(u, h, "published")
        /\ UNCHANGED <<clients, gw, serial, active>>

\* What a history handler shows of the rows it got.
HistoryReply(rows) == IF rows = {} THEN "history_empty" ELSE "history_list"

\* A show_user_history that leaves the user in the main menu.
show_user_history_to_menu(u) ==
    /\ Deliverable
    /\ \E io_ok \in BOOLEAN :
          ev' = Replied(u, "show_user_history",
                        HistoryReply(get_user_carousels(carousels, u, io_ok)))
    /\ ReplaceSession(u, Session("main_menu"))
    /\ Frame

\* Lines 1642-1675.
show_user_history(u) ==
    /\ Deliverable
    /\ \E io_ok \in BOOLEAN :
          ev' = Replied(u, "show_user_history",
                        HistoryReply(get_user_carousels(carousels, u, io_ok)))
    /\ UNCHANGED <<user_sessions, pending>>
    /\ Frame

\* Lines 1677-1707: /history.  init_db is awaited outside the try.
show_history(u) ==
    /\ Deliverable
    /\ \E init_ok \in BOOLEAN, io_ok \in BOOLEAN :
          ev' = IF ~init_ok THEN Escaped(u, "show_history")
                ELSE Replied(u, "show_history",
                             HistoryReply(get_user_carousels(carousels, u, io_ok)))
    /\ UNCHANGED <<user_sessions, pending>>
    /\ Frame

\* Lines 1709-1731: /stats.  init_db is awaited outside the try.
show_stats(u) ==
    /\ Deliverable
    /\ \E init_ok \in BOOLEAN :
          ev' = IF ~init_ok THEN Escaped(u, "show_stats")
                ELSE Replied(u, "show_stats", "stats")
    /\ UNCHANGED <<user_sessions, pending>>
    /\ Frame

(***************************************************************************)
(* The specifications of the bot: every event of every user, delivered      *)
(* one after the other (Spec), or while earlier handlers are suspended in   *)
(* the gateway (SpecConcurrent).                                            *)
(***************************************************************************)
Next ==
    \/ \E u \in active : start_command(u)
    \/ \E u \in active : handle_message_no_session(u)
    \/ \E u \in active : start_carousel_creation(u)
    \/ \E u \in active, style \in Styles : select_style(u, style)
    \/ \E u \in active : start_image_generation(u)
    \/ \E u \in active : show_how_it_works(u)
    \/ \E u \in active : back_to_main_menu(u)
    \/ \E u \in active : approve_content(u)
    \/ \E u \in active : request_modifications(u)
    \/ \E u \in active : request_html_modifications(u)
    \/ \E u \in active : decline_slide_image(u)
    \/ \E u \in active : request_image_url(u)
    \/ \E u \in active, topic \in Topics : generate_content(u, topic)
    \/ \E k \in Slots : generate_content_resume(k)
    \/ \E u \in active : modify_content(u)
    \/ \E k \in Slots : modify_content_resume(k)
    \/ \E u \in active : proceed_to_html_generation(u)
    \/ \E u \in active, text \in UserTexts : process_image_url(u, text)
    \/ \E u \in active : generate_image(u)
    \/ \E u \in active : generate_slide_image(u)
    \/ \E u \in active : modify_html_content(u)
    \/ \E u \in active : handle_message_ignored(u)
    \/ \E u \in active : publish_carousel(u)
    \/ \E u \in active : show_user_history(u)
    \/ \E u \in active : show_history(u)
    \/ \E u \in active : show_stats(u)

Spec == Init /\ [][Next]_vars
SpecConcurrent == InitConcurrent /\ [][Next]_vars


(***************************************************************************)
(* The specification of the gateway on its own: one call of                *)
(* generate_with_ai, for every deployment and every way the backends may   *)
(* answer the calls it makes.                                               *)
(***************************************************************************)
\* The deployments: with and without each of the two text backends.
GatewayConfigs == {cl \in ClientConfigs : ~cl.openrouter}
\* A text of blanks only.
Blank == <<SPACE>>
GatewayPrimaryResponses ==
    {Throws} \cup {Answers(t, "stop") : t \in {EmptyText, DocCards, DocCut}}
GatewaySecondaryResponses ==
    {Throws} \cup {Answers(t, f) : t \in GatewayTexts, f \in {"stop", "length"}}
GatewayShorterResponses ==
    {Throws} \cup {Answers(t, "stop") : t \in {EmptyText, Blank, DocCards, DocCut}}

InitGateway ==
    /\ InitStores
    /\ clients \in GatewayConfigs
    /\ gw \in [called : {FALSE}, p : GatewayPrimaryResponses,
               s1 : GatewaySecondaryResponses, s2 : GatewayShorterResponses,
               out : {Raised("", << >>)}]
    /\ serial = TRUE
    /\ active = {}

\* await self.generate_with_ai(prompt)
GatewayCall ==
    /\ ~gw.called
    /\ gw' = [gw EXCEPT !.called = TRUE,
                        !.out = generate_with_ai(clients, gw.p, gw.s1, gw.s2)]
    /\ UNCHANGED <<clients, user_sessions, pending, carousels, static_files,
                   next_uuid, ev, serial, active>>

NextGateway == GatewayCall

SpecGateway == InitGateway /\ [][NextGateway]_vars


(***************************************************************************)
(* Properties of the gateway (SpecGateway).                                 *)
(***************************************************************************)
Steps(log) == {log[i] : i \in 1..Len(log)}
CountIn(log, step) == Cardinality({i \in 1..Len(log) : log[i] = step})
\* Every occurrence of step b in the log comes after an occurrence of a.
ComesBefore(log, a, b) ==
    \A j \in 1..Len(log) : log[j] = b => \E i \in 1..(j - 1) : log[i] = a
\* The steps the gateway made after it called the secondary backend.
AfterSecondary(log) ==
    IF "secondary" \in Steps(log)
    THEN LET i == CHOOSE n \in 1..Len(log) : log[n] = "secondary"
         IN  SubSeq(log, i + 1, Len(log))
    ELSE << >>
\* The backend answered a text that is not empty.
AnswersText(s) == ~s.throws /\ s.text # EmptyText /\ Strip(s.text) # EmptyText
\* The call reached the secondary backend.
SecondaryCalled == gw.called /\ "secondary" \in Steps(gw.out.log)
\* The secondary backend answered a text cut by the length limit.
SecondaryTruncated ==
    SecondaryCalled /\ AnswersText(gw.s1) /\ gw.s1.finish = "length"
\* The openers and closers, or the quotes, of a text do not pair up.
Unbalanced(text) ==
    \/ Count(text, "{") # Count(text, "}")
    \/ Count(text, "[") # Count(text, "]")
    \/ Count(text, QUOTE) % 2 = 1

\* C6: with both backends configured, the primary backend is called exactly
\* once and first; the secondary backend is called only when that one call of
\* the primary threw; and when the primary throws and the secondary answers a
\* complete, non-empty text, the gateway returns the secondary's text.
C6_FallbackOrdering ==
    (gw.called /\ clients.anthropic /\ clients.openai) =>
        LET log == gw.out.log
        IN  /\ CountIn(log, "primary") = 1
            /\ log[1] = "primary"
            /\ "secondary" \in Steps(log) => (gw.p.throws /\ log[2] = "secondary")
            /\ CountIn(log, "secondary") <= 1
            /\ (gw.p.throws /\ AnswersText(gw.s1) /\ gw.s1.finish = "stop") =>
                  (gw.out.ok /\ gw.out.text = gw.s1.text)

C6_Witness ==
    /\ gw.called /\ clients.anthropic /\ clients.openai
    /\ gw.p.throws
    /\ gw.s1 = Answers(DocCards, "stop")
    /\ gw.out = Returned(DocCards, <<"primary", "secondary">>)

\* C7: the gateway fails with "No AI API keys configured" exactly when neither
\* text backend is configured, and then it has called no backend; when a
\* backend is configured and every configured backend throws or answers an
\* empty text, it fails with "Both Claude and OpenAI are unavailable".
C7_NotConfiguredOnlyWithoutBackends ==
    (gw.called /\ ~gw.out.ok) =>
        /\ (gw.out.err = MsgNotConfigured) <=> (~clients.anthropic /\ ~clients.openai)
        /\ (gw.out.err = MsgNotConfigured) => (gw.out.log = << >>)
        /\ ( /\ clients.anthropic \/ clients.openai
             /\ clients.openai => ~AnswersText(gw.s1) )
           => (gw.out.err = MsgUnavailable)

\* C8: when the secondary backend's answer was cut by the length limit, the
\* gateway returns the answer itself if it parses, with no further step; else
\* it repairs the answer and returns the repaired text if that parses, with no
\* further call; and it asks again with the shorter prompt only after both
\* the answer and the repaired text failed to parse.
C8_CascadeOrder ==
    SecondaryTruncated =>
        LET steps == AfterSecondary(gw.out.log)
            fixed == fix_truncated_json(gw.s1.text)
        IN  IF IsValidJson(gw.s1.text)
            THEN gw.out.ok /\ gw.out.text = gw.s1.text
                 /\ steps = <<"parse_partial">>
            ELSE IF IsValidJson(fixed)
            THEN gw.out.ok /\ gw.out.text = fixed
                 /\ steps = <<"parse_partial", "repair">>
            ELSE steps = <<"parse_partial", "repair", "secondary_shorter">>

C8_Witness ==
    /\ SecondaryTruncated
    /\ gw.s1.text = DocCut
    /\ gw.out.ok
    /\ gw.out.text = DocCut \o <<"]", "}">>
    /\ AfterSecondary(gw.out.log) = <<"parse_partial", "repair">>

\* The cascade has nothing left: the cut answer does not parse, the repaired
\* text does not parse, and the request with the shorter prompt threw or
\* answered an empty text.
CascadeExhausted ==
    /\ SecondaryTruncated
    /\ ~IsValidJson(gw.s1.text)
    /\ ~IsValidJson(fix_truncated_json(gw.s1.text))
    /\ ~AnswersText(gw.s2)

\* C9: when the truncation cascade is exhausted the gateway fails with
\* "Response was truncated and could not be repaired", a failure the caller
\* can tell from "Both Claude and OpenAI are unavailable".
C9_ExhaustedCascadeRaisesTruncated ==
    CascadeExhausted => (~gw.out.ok /\ gw.out.err = MsgTruncated)

\* The secondary backend's first answer is cut by the length limit and
\* unbalanced, and its answer to the shorter prompt parses.
UnbalancedThenValid ==
    /\ SecondaryTruncated
    /\ Unbalanced(gw.s1.text)
    /\ ~gw.s2.throws
    /\ IsValidJson(gw.s2.text)

\* The second call's text is returned, and the repair was tried before the
\* second call was made.
ReturnsSecondCall ==
    /\ gw.out.ok
    /\ gw.out.text = gw.s2.text
    /\ "repair" \in Steps(gw.out.log)
    /\ "secondary_shorter" \in Steps(gw.out.log)
    /\ ComesBefore(gw.out.log, "repair", "secondary_shorter")

\* C10, as stated: for every cut and unbalanced first answer of the secondary
\* backend followed by a second answer that parses, the gateway returns the
\* second call's text, having tried the repair before the second call.
C10_EveryUnbalancedAnswerFallsThrough ==
    UnbalancedThenValid => ReturnsSecondCall

\* C10, amended: the same, for every cut and unbalanced first answer that
\* does not parse and whose repaired text does not parse either.
C10_UnrepairableAnswerFallsThrough ==
    ( /\ UnbalancedThenValid
      /\ ~IsValidJson(gw.s1.text)
      /\ ~IsValidJson(fix_truncated_json(gw.s1.text)) )
    => ReturnsSecondCall

C10_Witness ==
    /\ UnbalancedThenValid
    /\ gw.s1.text = DocCutInside
    /\ ~IsValidJson(fix_truncated_json(DocCutInside))
    /\ gw.s2.text = DocCards
    /\ gw.out.ok
    /\ gw.out.text = DocCards
    /\ AfterSecondary(gw.out.log) = <<"parse_partial", "repair", "secondary_shorter">>


(***************************************************************************)
(* Properties of the bot (Spec).                                            *)
(***************************************************************************)
\* The last event was a text handled by h, and the gateway call it made
\* ended in `outcome`.
GenerationEnded(e, outcome) ==
    /\ e.handler \in {"generate_content", "modify_content"}
    /\ e.gen = outcome
\* The state, the topic and the generated content of a session.
ContentOf(session) ==
    <<session.state, session.topic, session.generated_content>>
\* The store holds a record of the location the session of u holds.
Recorded(u) ==
    \E row \in carousels :
        /\ row.user_id = u
        /\ Some(row.public_url) = user_sessions[u].published_url

\* C1: when a text in awaiting_topic or awaiting_modifications is handled and
\* the gateway raises, or the text it answers is rejected by the handler's
\* json.loads, the state, the topic and the generated content of the session
\* are after the handler what they were before it.
C1_FailedGenerationKeepsSession ==
    [][ (GenerationEnded(ev', "raised") \/ GenerationEnded(ev', "invalid"))
        => ContentOf(user_sessions'[ev'.user]) = ContentOf(user_sessions[ev'.user])
      ]_vars

C1_Witness ==
    /\ ev.handler = "modify_content"
    /\ ev.gen \in {"raised", "invalid"}
    /\ user_sessions[ev.user].state = "awaiting_modifications"
    /\ user_sessions[ev.user].topic = Some(TextTopic)
    /\ user_sessions[ev.user].generated_content = Some(DocCards)

\* C2: when a topic sent in awaiting_topic is handled and the gateway answers
\* a text the handler's json.loads accepts, the session is in content_review
\* with that topic and a generated content that parses, and holds neither a
\* rendered document nor a published location.
C2_GeneratedContentEntersReview ==
    [][ (ev'.handler = "generate_content" /\ ev'.gen = "valid")
        => LET before == user_sessions[ev'.user]
               after == user_sessions'[ev'.user]
           IN  /\ before.state = "awaiting_topic"
               /\ after.state = "content_review"
               /\ \E k \in Slots : /\ pending[k].handler = "generate_content"
                                   /\ pending'[k] = NoTask
                                   /\ after.topic = Some(pending[k].text)
               /\ after.generated_content # Absent
               /\ IsValidJson(Val(after.generated_content))
               /\ after.html_content = Absent
               /\ after.published_url = Absent
      ]_vars

C2_Witness ==
    /\ ev.handler = "generate_content"
    /\ ev.gen = "valid"
    /\ carousels # {}
    /\ user_sessions[ev.user].state = "content_review"
    /\ user_sessions[ev.user].topic = Some(TextTopic)
    /\ user_sessions[ev.user].generated_content = Some(DocCards)
    /\ user_sessions[ev.user].html_content = Absent
    /\ user_sessions[ev.user].published_url = Absent

\* C3: after a publish attempt the session holds a published location exactly
\* when the store holds a record of that location for the user; the file of
\* an identifier exists exactly when the store holds the record of that
\* identifier; and the user is told the carousel is published only then.
C3_PublishAtomic ==
    (ev.handler = "publish_carousel") =>
        /\ (user_sessions[ev.user].published_url # Absent) <=> Recorded(ev.user)
        /\ \A id \in Ids :
              (static_files[id] # "absent")
                  <=> (\E row \in carousels : row.carousel_id = id)
        /\ (ev.reply = "published") => Recorded(ev.user)

\* C4: a publish that wrote the file and the record and told the user the
\* carousel is published leaves the session in the state published.
C4_PublishMovesToPublished ==
    ( /\ ev.handler = "publish_carousel"
      /\ ev.reply = "published"
      /\ Recorded(ev.user)
      /\ \E row \in carousels : static_files[row.carousel_id] = "written" )
    => (user_sessions[ev.user].state = "published")

\* C5: whatever the session was, after back_to_main_menu it is exactly a
\* main-menu session: state main_menu and no style, topic, generated content,
\* rendered document or published location.
C5_BackToMenuResets ==
    [][ (ev'.handler = "back_to_main_menu")
        => user_sessions'[ev'.user] = Session("main_menu") ]_vars

C5_Witness ==
    /\ ev.handler = "back_to_main_menu"
    /\ user_sessions[ev.user] = Session("main_menu")
    /\ \E row \in carousels : row.user_id = ev.user


\* The text deserializes into the card-sequence shape: an object whose key
\* cards holds a list of objects.
IsCardSequence(text) ==
    LET r == json_loads(text)
    IN  /\ r.ok
        /\ r.val.t = "obj"
        /\ HasKey(r.val, KeyCards)
        /\ DictGet(r.val, KeyCards, NoVal).t = "arr"
        /\ \A i \in 1..Len(DictGet(r.val, KeyCards, NoVal).kids) :
              DictGet(r.val, KeyCards, NoVal).kids[i].t = "obj"

\* C11: the generated content a session holds is always a text that
\* deserializes into the card-sequence shape (an object holding the list of
\* cards); a bare list, a number or an object without the cards is never
\* stored.
C11_StoredContentIsCardSequence ==
    \A u \in Users :
        (user_sessions[u].generated_content # Absent)
            => IsCardSequence(Val(user_sessions[u].generated_content))


(***************************************************************************)
(* The repair on its own: fix_truncated_json applied once to a text.  The   *)
(* variable gw holds the call: the text given and the text returned.        *)
(***************************************************************************)
\* A JSON string holding a structural character: "{".
DocBraceString == <<QUOTE, "{", QUOTE>>

\* The texts the repair is given: every short text, every truncation of the
\* documents, and valid documents whose strings hold a delimiter or an
\* escaped quote.
RepairTexts ==
    TextsUpTo(MaxLen) \cup Prefixes(DocCards) \cup Prefixes(DocEscaped)
        \cup {DocBraceString, DocTwoCards, DocList}

InitRepair ==
    /\ InitStores
    /\ clients = NoClients
    /\ gw \in [called : {FALSE}, text : RepairTexts, out : {EmptyText}]
    /\ serial = TRUE
    /\ active = {}

\* self.fix_truncated_json(content)
RepairCall ==
    /\ ~gw.called
    /\ gw' = [gw EXCEPT !.called = TRUE, !.out = fix_truncated_json(gw.text)]
    /\ UNCHANGED <<clients, user_sessions, pending, carousels, static_files,
                   next_uuid, ev, serial, active>>

NextRepair == RepairCall

SpecRepair == InitRepair /\ [][NextRepair]_vars

\* C12: the repair of a text that json.loads already accepts returns that
\* text, or a text json.loads accepts with the same value; also when a
\* string of the text holds a delimiter or an escaped quote.
C12_RepairKeepsValidText ==
    (gw.called /\ IsValidJson(gw.text))
        => \/ gw.out = gw.text
           \/ /\ IsValidJson(gw.out)
              /\ json_loads(gw.out).val = json_loads(gw.text).val


\* C13: no handler ends by raising: whatever the event and whatever the
\* session of its user (none at all, or one without the field the handler
\* reads), the handler of the last event returned.
C13_NoHandlerRaises == ~ev.raised


\* The step is a publish_carousel whose save_carousel failed: the file was
\* written and the user was answered, and the store got no record.
StoreFailedIn(e, rows, rows_after) ==
    /\ e.handler = "publish_carousel"
    /\ e.reply = "published"
    /\ rows_after = rows

\* C14: a step in which the gateway raised, the handler's json.loads rejected
\* the answer, or the store failed to save leaves the session of its user
\* exactly as it was before the step.
C14_FailedStepRestoresSession ==
    [][ ( \/ GenerationEnded(ev', "raised")
          \/ GenerationEnded(ev', "invalid")
          \/ StoreFailedIn(ev', carousels, carousels') )
        => user_sessions'[ev'.user] = user_sessions[ev'.user] ]_vars


\* C15: the approve action on a session in content_review that holds a
\* card document as generated content leaves it, in that same step, in html_review with a
\* rendered document.
C15_ApproveRendersIntoHtmlReview ==
    [][ ( /\ ev'.handler = "approve_content"
          /\ user_sessions[ev'.user].state = "content_review"
          /\ user_sessions[ev'.user].generated_content = Some(DocCards) )
        => /\ user_sessions'[ev'.user].state = "html_review"
           /\ user_sessions'[ev'.user].html_content # Absent ]_vars


\* C16: a step in which rendering failed, from a button or from a text
\* carrying an image URL, leaves the session in content_review with the
\* generated content and the rendered document it had before the step.
C16_FailedRenderKeepsContentReview ==
    [][ (ev'.reply = "html_failed")
        => /\ user_sessions'[ev'.user].state = "content_review"
           /\ user_sessions'[ev'.user].generated_content
                 = user_sessions[ev'.user].generated_content
           /\ user_sessions'[ev'.user].html_content
                 = user_sessions[ev'.user].html_content ]_vars


\* C17: the rendered document a session holds is the rendering of the
\* generated content the session holds now, and the body of every record of
\* the store is the rendering of the content of that record.
C17_RenderedDocumentIsOfCurrentContent ==
    /\ \A u \in Users :
          (user_sessions[u].html_content # Absent)
              => Some(Val(user_sessions[u].html_content).content)
                     = user_sessions[u].generated_content
    /\ \A row \in carousels : row.html_content.content = row.generated_content


\* The replies that tell the user the step failed.
FailureReplies ==
    {"generate_failed", "invalid_format", "modify_failed",
     "modify_invalid_format", "html_failed", "html_modify_failed",
     "publish_failed", "image_failed_with_detail", "image_unavailable",
     "invalid_url"}
\* The step recorded in e failed: its handler raised or reported a failure.
FailedStep(e) == e.raised \/ e.reply \in FailureReplies
\* The generated content, the rendered document and the published location.
Artifacts(session) ==
    <<session.generated_content, session.html_content, session.published_url>>
\* The fields of Artifacts that a step from before to after populated.
Populated(before, after) ==
    {f \in 1..3 : before[f] = Absent /\ after[f] # Absent}

\* C18: a step that did not fail populates at most one of generated content,
\* rendered document and published location; a step that failed leaves each
\* of them that was populated as it was.
C18_OneArtifactPerStepAndFailuresKeepThem ==
    [][ LET before == Artifacts(user_sessions[ev'.user])
            after == Artifacts(user_sessions'[ev'.user])
        IN  /\ ~FailedStep(ev') => Cardinality(Populated(before, after)) <= 1
            /\ FailedStep(ev') =>
                  \A f \in 1..3 : before[f] # Absent => after[f] = before[f]
      ]_vars


\* The handlers handle_message calls for a text, and the name under which a
\* text that no handler is called for is recorded.
TextHandlers ==
    {"generate_content", "generate_image", "generate_slide_image",
     "process_image_url", "modify_content", "modify_html_content"}
\* States in which no text is awaited.
NoTextStates ==
    {"main_menu", "awaiting_style_selection", "content_review", "html_review"}

\* C19: a text is handled by the state of the session alone: it is taken as
\* a topic only in awaiting_topic and as a change request only in
\* awaiting_modifications, and a text to a session in main_menu,
\* awaiting_style_selection, content_review or html_review calls no handler
\* and leaves the sessions, the suspended handlers, the store and the files
\* as they were.
C19_TextHandledByStateOnly ==
    [][ LET state == user_sessions[ev'.user].state
        IN  /\ (ev'.handler = "generate_content") => state = "awaiting_topic"
            /\ (ev'.handler = "modify_content") => state = "awaiting_modifications"
            /\ ( /\ ev'.handler \in TextHandlers \cup {"handle_message"}
                 /\ state \in NoTextStates )
               => /\ ev'.handler = "handle_message"
                  /\ UNCHANGED <<user_sessions, pending, carousels, static_files>>
      ]_vars

C19_Witness ==
    /\ ev.handler = "handle_message"
    /\ user_sessions[ev.user].state = "html_review"
    /\ user_sessions[ev.user].generated_content = Some(DocCards)
    /\ user_sessions[ev.user].html_content # Absent


\* C20: a text in awaiting_html_modifications that was handled with success
\* leaves the session in html_review.
C20_HtmlModificationReturnsToHtmlReview ==
    [][ (ev'.handler = "modify_html_content" /\ ev'.reply = "html_modified")
        => user_sessions'[ev'.user].state = "html_review" ]_vars


\* The handlers of the history button, of /history and of /stats.
QueryHandlers == {"show_user_history", "show_history", "show_stats"}

\* C21: a step of the history button, of /history or of /stats, whether it
\* showed its answer, reported a failure or raised, leaves the session of
\* every user as it was.
C21_QueriesKeepSessions ==
    [][ (ev'.handler \in QueryHandlers) => user_sessions' = user_sessions ]_vars

C21_Witness ==
    /\ ev.handler = "show_user_history"
    /\ ev.reply = "history_list"
    /\ user_sessions[ev.user].state = "html_review"
    /\ user_sessions[ev.user].published_url # Absent


\* C22: the records of the store change only in a step of publish_carousel:
\* every other step (a button that enters a state awaiting text, generating
\* or modifying content, rendering, back to the menu, a query) leaves the set
\* of records as it was.
C22_OnlyPublishChangesRecords ==
    [][ (carousels' # carousels) => ev'.handler = "publish_carousel" ]_vars

C22_Witness ==
    /\ ev.handler = "modify_content"
    /\ ev.gen = "valid"
    /\ \E row \in carousels :
          /\ row.user_id = ev.user
          /\ Some(row.generated_content) # user_sessions[ev.user].generated_content


(***************************************************************************)
(* Two users whose events are handled while earlier handlers are suspended  *)
(* in the gateway call: the steps around `await self.generate_with_ai`,     *)
(* from sessions the bot reaches, with every text backend configured.       *)
(***************************************************************************)
\* A session that chose style_2 and awaits the topic, and one whose content
\* is under review.
SessionAwaitingTopic ==
    [Session("awaiting_topic") EXCEPT !.style = Some("style_2")]
SessionInReview ==
    [Session("content_review") EXCEPT !.style = Some("style_2"),
                                      !.topic = Some(TextTopic),
                                      !.generated_content = Some(DocCards)]
InterleavedSessions == {NoSession, SessionAwaitingTopic, SessionInReview}

InitInterleaved ==
    /\ user_sessions \in [Users -> InterleavedSessions]
    /\ pending = [k \in Slots |-> NoTask]
    /\ carousels = {}
    /\ static_files = [i \in Ids |-> "absent"]
    /\ next_uuid = 1
    /\ ev = NoEvent
    /\ clients = AllClients
    /\ gw = GwIdle
    /\ serial = FALSE
    /\ active = Users

NextInterleaved ==
    \/ \E u \in active, topic \in Topics : generate_content(u, topic)
    \/ \E k \in Slots : generate_content_resume(k)
    \/ \E u \in active : request_modifications(u)
    \/ \E u \in active : modify_content(u)
    \/ \E k \in Slots : modify_content_resume(k)
    \/ \E u \in active : back_to_main_menu(u)

SpecInterleaved == InitInterleaved /\ [][NextInterleaved]_vars


\* The step ended a call of the gateway.
GatewayStep(e) == e.gen # "none"

\* C23: a step for one user, also one taken while handlers of the other user
\* are suspended in the gateway call, leaves the session of every other user
\* as it was; and a step that ends a call of the gateway changes nothing but
\* the session of its user and the slot of its handler: not the store, not
\* the files, not the client configuration, not a handler of another user.
C23_UsersAreIsolated ==
    [][ /\ \A b \in Users :
              (b # ev'.user) => user_sessions'[b] = user_sessions[b]
        /\ GatewayStep(ev') =>
              /\ UNCHANGED <<carousels, static_files, next_uuid, clients>>
              /\ \A k \in Slots :
                    (pending[k].user # ev'.user) => pending'[k] = pending[k]
      ]_vars

\* The user of slot 1 got content while the handler of the other user, who
\* asked later, was still suspended.
C23_Witness ==
    /\ ev.handler = "generate_content"
    /\ ev.gen = "valid"
    /\ user_sessions[ev.user].generated_content # Absent
    /\ \E k \in Slots :
          /\ pending[k] # NoTask
          /\ pending[k].user # ev.user
          /\ user_sessions[pending[k].user] = SessionAwaitingTopic


(***************************************************************************)
(* The content store on its own (carousel_cache.py): calls of its methods   *)
(* on the table carousels, each with the database reachable or not.  The    *)
(* variable gw holds the last call: the method, its argument, whether the   *)
(* database could be used, what was returned and whether the call raised.   *)
(***************************************************************************)
\* get_carousel: the row of the id; None when there is none and on an error.
get_carousel(rows, id, io_ok) ==
    IF io_ok /\ \E r \in rows : r.carousel_id = id
    THEN Some(CHOOSE r \in rows : r.carousel_id = id)
    ELSE Absent

\* The dict get_carousel_stats returns: the counts and the topics with the
\* number of rows of each; {} on an error.  recent: the rows created in the
\* last 24 hours.
\* A get_carousel_stats whose count of users counts the absent user as one.
get_carousel_stats_counting_null(rows, recent, io_ok) ==
    IF io_ok
    THEN [key \in {"total_carousels", "unique_users", "recent_carousels",
                   "popular_topics"} |->
            CASE key = "total_carousels" -> Cardinality(rows)
              [] key = "unique_users" ->
                    Cardinality({r.user_id : r \in rows} \cup {0})
              [] key = "recent_carousels" -> Cardinality(rows \cap recent)
              [] OTHER ->
                    {<<t, Cardinality({r \in rows : r.topic = t})>> :
                        t \in {r.topic : r \in rows}}]
    ELSE [key \in {} |-> 0]

get_carousel_stats(rows, recent, io_ok) ==
    IF io_ok
    THEN [key \in {"total_carousels", "unique_users", "recent_carousels",
                   "popular_topics"} |->
            CASE key = "total_carousels" -> Cardinality(rows)
              [] key = "unique_users" -> Cardinality({r.user_id : r \in rows})
              [] key = "recent_carousels" -> Cardinality(rows \cap recent)
              [] OTHER ->
                    {<<t, Cardinality({r \in rows : r.topic = t})>> :
                        t \in {r.topic : r \in rows}}]
    ELSE [key \in {} |-> 0]

\* stats.get(key, default), as show_stats reads the dict.
StatsGet(stats, key, default) ==
    IF key \in DOMAIN stats THEN stats[key] ELSE default

\* The rows the store is given: two identifiers, the users, two topics and
\* two contents.
StoreIds == {1, 2}
StoreRows ==
    {Row(id, u, topic, content, Html(content, "style_1", << >>),
         PublicUrl(id), FilePath(id)) :
        id \in StoreIds, u \in Users, topic \in {TextTopic, TextUrl},
        content \in {DocCards, DocList}}

StoreCall(op, arg, io_ok, ret, raised) ==
    [op |-> op, arg |-> arg, io_ok |-> io_ok, ret |-> ret, raised |-> raised]
StoreIdle == StoreCall("none", << >>, TRUE, << >>, FALSE)

InitStore ==
    /\ InitStores
    /\ clients = NoClients
    /\ gw = StoreIdle
    /\ serial = TRUE
    /\ active = {}

StoreFrame ==
    UNCHANGED <<clients, user_sessions, pending, static_files, next_uuid, ev,
                serial, active>>

\* await self.cache.init_db(): the error of the database is not caught.
init_db_call ==
    /\ \E io_ok \in BOOLEAN :
          gw' = StoreCall("init_db", << >>, io_ok, << >>, ~io_ok)
    /\ UNCHANGED carousels
    /\ StoreFrame

save_carousel_call ==
    /\ \E row \in StoreRows, io_ok \in BOOLEAN :
          LET res == save_carousel(carousels, row, io_ok)
          IN  /\ carousels' = res.rows
              /\ gw' = StoreCall("save_carousel", row, io_ok, res.ok, FALSE)
    /\ StoreFrame

get_carousel_call ==
    /\ \E id \in StoreIds, io_ok \in BOOLEAN :
          gw' = StoreCall("get_carousel", id, io_ok,
                          get_carousel(carousels, id, io_ok), FALSE)
    /\ UNCHANGED carousels
    /\ StoreFrame

get_user_carousels_call ==
    /\ \E u \in Users, io_ok \in BOOLEAN :
          gw' = StoreCall("get_user_carousels", u, io_ok,
                          get_user_carousels(carousels, u, io_ok), FALSE)
    /\ UNCHANGED carousels
    /\ StoreFrame

get_carousel_stats_call ==
    /\ \E recent \in SUBSET carousels, io_ok \in BOOLEAN :
          gw' = StoreCall("get_carousel_stats", recent, io_ok,
                          get_carousel_stats(carousels, recent, io_ok), FALSE)
    /\ UNCHANGED carousels
    /\ StoreFrame

NextStore ==
    \/ init_db_call
    \/ save_carousel_call
    \/ get_carousel_call
    \/ get_user_carousels_call
    \/ get_carousel_stats_call

SpecStore == InitStore /\ [][NextStore]_vars


\* The rows of rows whose identifier is not id.
OtherRows(rows, id) == {r \in rows : r.carousel_id # id}

\* C24: a save_carousel that reached the database leaves exactly one record
\* of the identifier it was given, holding the values of this call, and every
\* record of another identifier as it was; one that did not reach the
\* database leaves every record as it was.
C24_SaveIsInsertOrReplaceById ==
    [][ (gw'.op = "save_carousel") =>
          IF gw'.io_ok
          THEN /\ {r \in carousels' : r.carousel_id = gw'.arg.carousel_id}
                     = {gw'.arg}
               /\ OtherRows(carousels', gw'.arg.carousel_id)
                     = OtherRows(carousels, gw'.arg.carousel_id)
          ELSE carousels' = carousels
      ]_vars

C24_Witness ==
    /\ gw.op = "save_carousel"
    /\ gw.io_ok
    /\ gw.arg \in carousels
    /\ gw.arg.generated_content = DocList
    /\ \E r \in carousels :
          r.carousel_id # gw.arg.carousel_id /\ r.generated_content = DocCards


\* C25: when the database cannot be used, what a lookup of the store returns
\* differs from what it returns when it finds nothing: the caller can tell
\* the error from an empty result.
C25_IoErrorToldApartFromEmpty ==
    (~gw.io_ok) =>
        CASE gw.op = "get_user_carousels" ->
                gw.ret # get_user_carousels({}, gw.arg, TRUE)
          [] gw.op = "get_carousel" ->
                gw.ret # get_carousel({}, gw.arg, TRUE)
          [] gw.op = "get_carousel_stats" ->
                gw.ret # get_carousel_stats({}, {}, TRUE)
          [] OTHER -> TRUE


\* C26: get_carousel_stats on a store without records does not raise, and
\* the total, the number of users and the number of the last 24 hours read
\* from what it returns are 0 and the list of topics is empty; when the
\* database was reached the dict returned holds exactly these four values.
C26_StatsOfEmptyStoreAreZero ==
    (gw.op = "get_carousel_stats" /\ carousels = {}) =>
        /\ ~gw.raised
        /\ StatsGet(gw.ret, "total_carousels", 0) = 0
        /\ StatsGet(gw.ret, "unique_users", 0) = 0
        /\ StatsGet(gw.ret, "recent_carousels", 0) = 0
        /\ StatsGet(gw.ret, "popular_topics", {}) = {}
        /\ gw.io_ok =>
              DOMAIN gw.ret = {"total_carousels", "unique_users",
                               "recent_carousels", "popular_topics"}

C26_Witness ==
    /\ gw.op = "get_carousel_stats"
    /\ gw.io_ok
    /\ carousels = {}
    /\ gw.ret["total_carousels"] = 0
    /\ gw.ret["popular_topics"] = {}


\* The replies whose text holds str(e) of the exception caught (bot.py
\* 757-769 and 1093-1105: "Error details: {str(e)[:200]}").
RepliesWithErrorDetail == {"image_failed_with_detail"}

\* C27: what a handler shows the user never holds the message of the
\* exception it caught.
C27_RepliesHoldNoErrorDetail == ev.reply \notin RepliesWithErrorDetail


\* The step is a publish_carousel that told the user the carousel is
\* published and added a record to the store.
PublishSucceeded(e, rows, rows_after) ==
    /\ e.handler = "publish_carousel"
    /\ e.reply = "published"
    /\ rows_after # rows
\* {BASE_URL}/static/{name}{id}.html
Location(name, id) ==
    [base |-> "BASE_URL", dir |-> "/static/",
     file |-> [prefix |-> name, id |-> id, suffix |-> ".html"]]
\* After the step the session holds the location loc and the identifier id,
\* and the record the step added has the key id, the user of the session and
\* the location loc.
PublishedAs(u, id, loc) ==
    /\ user_sessions'[u].published_url = Some(loc)
    /\ user_sessions'[u].carousel_id = Some(id)
    /\ \E row \in carousels' :
          /\ carousels' \ carousels = {row}
          /\ row.carousel_id = id
          /\ row.user_id = u
          /\ row.public_url = loc

DirectedHandlers ==
    {"approve_content", "request_modifications", "publish_carousel",
     "request_html_modifications", "select_style",
     "proceed_to_html_generation"}
\* The states whose message offers the button of the handler.
OfferedIn(handler) ==
    CASE handler \in {"approve_content", "request_modifications"} ->
            {"content_review"}
      [] handler \in {"publish_carousel", "request_html_modifications"} ->
            {"html_review"}
      [] handler = "select_style" -> {"awaiting_style_selection"}
      [] handler = "proceed_to_html_generation" ->
            {"awaiting_image_description_for_slide", "reviewing_slide_image"}
      [] OTHER -> {}

\* C29: a step of the handler of a button, taken in a state that does not
\* offer the button, leaves the session of the user, the records of the
\* store and the files as they were.
C29_ButtonsActOnlyInTheirState ==
    [][ ( /\ ev'.handler \in DirectedHandlers
          /\ user_sessions[ev'.user].state \notin OfferedIn(ev'.handler) )
        => /\ user_sessions'[ev'.user] = user_sessions[ev'.user]
           /\ UNCHANGED <<carousels, static_files>> ]_vars


C31_EmptyAnswerIsAFailure ==
    /\ (gw.called /\ clients.anthropic /\ ~gw.p.throws /\ gw.p.text = EmptyText)
          => /\ ~(gw.out.ok /\ gw.out.text = EmptyText)
             /\ clients.openai => "secondary" \in Steps(gw.out.log)
    /\ (SecondaryCalled /\ ~gw.s1.throws /\ gw.s1.text = EmptyText)
          => ~gw.out.ok


\* C32: whatever the gateway returns after the first answer of the secondary
\* backend was stopped by the length limit is a text json.loads accepts, be
\* it the partial answer, the repaired text or the answer to the shorter
\* prompt.
C32_TextAfterTruncationIsValid ==
    (SecondaryTruncated /\ gw.out.ok) => IsValidJson(gw.out.text)


\* The card document cut inside its card where closing innermost first gives
\* a document: after the card's opening brace, inside the string of the
\* card's value, and after that string.
CutInsideCard == {SubSeq(DocCards, 1, n) : n \in {7, 12, 13, 14}}

\* C33: the repair of a document cut inside a card (an unclosed string or an
\* unclosed card, in the unclosed list, in the unclosed object) is well
\* nested: json.loads accepts it.
C33_RepairOfCutCardParses ==
    (gw.called /\ gw.text \in CutInsideCard) => IsValidJson(gw.out)


\* The text has no more closers than openers of each kind.
NoExcessClosers(text) ==
    /\ Count(text, "}") <= Count(text, "{")
    /\ Count(text, "]") <= Count(text, "[")
\* The place of a closing character in the order quote, list closer, object
\* closer; 0 for any other character.
CloserRank(ch) ==
    CASE ch = QUOTE -> 1 [] ch = "]" -> 2 [] ch = "}" -> 3 [] OTHER -> 0
\* What out holds after its first n characters.
Appended(out, n) == SubSeq(out, n + 1, Len(out))

C35_AtMostThreeBackendCalls ==
    gw.called =>
        /\ CountIn(gw.out.log, "primary") <= 1
        /\ CountIn(gw.out.log, "secondary") <= 1
        /\ CountIn(gw.out.log, "secondary_shorter") <= 1
        /\ ("secondary_shorter" \in Steps(gw.out.log)) =>
              /\ ComesBefore(gw.out.log, "secondary", "secondary_shorter")
              /\ AnswersText(gw.s1)
              /\ gw.s1.finish = "length"

C35_Witness ==
    /\ gw.called
    /\ gw.p.throws
    /\ gw.s1 = Answers(DocCutInside, "length")
    /\ gw.s2.throws
    /\ gw.out.log = <<"primary", "secondary", "parse_partial", "repair",
                      "secondary_shorter">>


C37_ModificationOverwritesContent ==
    [][ (ev'.handler = "modify_content" /\ ev'.reply = "modified_preview")
        => LET u == ev'.user
               before == user_sessions[u]
               after == user_sessions'[u]
           IN  /\ after.generated_content # Absent
               /\ IsValidJson(Val(after.generated_content))
               /\ after = [before EXCEPT
                             !.state = "content_review",
                             !.generated_content = after.generated_content]
               /\ after.topic = before.topic /\ after.topic # Absent
               /\ StyleOf(after) = StyleOf(before)
               /\ \A v \in Users \ {u} :
                     user_sessions'[v] = user_sessions[v] ]_vars

C37_Witness ==
    /\ ev.handler = "modify_content"
    /\ ev.reply = "modified_preview"
    /\ \E u \in Users :
          /\ ev.user = u
          /\ user_sessions[u].state = "content_review"
          /\ user_sessions[u].generated_content = Some(DocCards)
          /\ user_sessions[u].topic # Absent


(***************************************************************************)
(* Publishing: two users whose sessions hold a rendered document or none,   *)
(* and the publish button pressed any number of times, one event at a time. *)
(***************************************************************************)
InitPublish ==
    LET rendered(style) ==
            [Session("html_review") EXCEPT
                !.style = Some(style),
                !.topic = Some(TextTopic),
                !.generated_content = Some(DocCards),
                !.html_content = Some(Html(DocCards, style, Absent))]
    IN  /\ user_sessions \in
              [Users -> {NoSession, Session("main_menu"),
                         rendered("style_1"), rendered("style_2")}]
        /\ pending = [k \in Slots |-> NoTask]
        /\ carousels = {}
        /\ static_files = [i \in Ids |-> "absent"]
        /\ next_uuid = 0
        /\ ev = NoEvent
        /\ clients = AllClients
        /\ gw = GwIdle
        /\ serial = TRUE
        /\ active = Users

NextPublish ==
    \/ \E u \in active : publish_carousel(u)
    \/ \E u \in active : back_to_main_menu(u)

SpecPublish == InitPublish /\ [][NextPublish]_vars

\* C38: a publish that added to the store added one record, under an
\* identifier no record had before, and left every earlier record as it was;
\* no two records of the store share an identifier.
C38_PublishInsertsUnderFreshId ==
    /\ [][ PublishSucceeded(ev', carousels, carousels')
           => \E row \in carousels' :
                 /\ row.carousel_id \notin {r.carousel_id : r \in carousels}
                 /\ row.user_id = ev'.user
                 /\ carousels' = carousels \cup {row}
                 /\ Cardinality(carousels') = Cardinality(carousels) + 1 ]_vars
    /\ [](\A r1, r2 \in carousels :
             r1.carousel_id = r2.carousel_id => r1 = r2)

\* One session published twice: two records of the user under different
\* identifiers, the session holding the later one.
C38_Witness ==
    /\ ev.handler = "publish_carousel"
    /\ ev.reply = "published"
    /\ \E r1, r2 \in carousels :
          /\ r1.carousel_id # r2.carousel_id
          /\ r1.user_id = ev.user /\ r2.user_id = ev.user
          /\ r1.html_content = r2.html_content
          /\ user_sessions[ev.user].carousel_id = Some(r2.carousel_id)
          /\ r2.carousel_id > r1.carousel_id


\* C39: a publish_carousel for a user who has no session, or whose session
\* holds no rendered document, writes no artifact file and no record, leaves
\* every session as it was, raises nothing and tells the user that
\* publishing failed.
C39_PublishWithoutArtifactFails ==
    [][ ( /\ ev'.handler = "publish_carousel"
          /\ \/ ~HasSession(ev'.user)
             \/ user_sessions[ev'.user].html_content = Absent )
        => /\ static_files' = static_files
           /\ carousels' = carousels
           /\ next_uuid' = next_uuid
           /\ user_sessions' = user_sessions
           /\ ev'.reply = "publish_failed"
           /\ ~ev'.raised ]_vars

\* The failure was reported to a user without a session while the store
\* holds the record of another user's publish.
C39_Witness ==
    /\ ev.handler = "publish_carousel"
    /\ ev.reply = "publish_failed"
    /\ ~HasSession(ev.user)
    /\ \E row \in carousels : row.user_id # ev.user
    /\ \E u \in Users \ {ev.user} :
          /\ HasSession(u)
          /\ user_sessions[u].html_content # Absent


\* C40: in every reachable state, a session in html_review holds generated
\* content and a rendered document, and a session in content_review holds a
\* topic and generated content.
C40_ReviewStatesHoldTheirData ==
    \A u \in Users :
        /\ user_sessions[u].state = "html_review"
              => /\ user_sessions[u].generated_content # Absent
                 /\ user_sessions[u].html_content # Absent
        /\ user_sessions[u].state = "content_review"
              => /\ user_sessions[u].topic # Absent
                 /\ user_sessions[u].generated_content # Absent

\* A session in html_review right after its render: it came from
\* content_review and holds the topic, the content and the document.
C40_Witness ==
    \E u \in Users :
        /\ ev.user = u
        /\ ev.reply = "html_preview"
        /\ user_sessions[u].state = "html_review"
        /\ user_sessions[u].topic # Absent
        /\ user_sessions[u].generated_content = Some(DocCards)
        /\ user_sessions[u].html_content # Absent

=============================================================================
